---- MODULE Spec2Model ----
(***************************************************************************)
(* lru_cache_using_std (the core LRU store) and shared_lru_cache_using_std *)
(* (the coordinated, thread-safe cache built on it).                       *)
(*                                                                         *)
(* A behaviour is one program run.  The program constructs either a        *)
(* stand-alone lru_cache_using_std and drives it sequentially              *)
(* (mode = "core"), or a shared_lru_cache_using_std that NThreads threads  *)
(* call concurrently (mode = "shared").  In both cases _key_tracker and    *)
(* _key_to_value are the members of the one lru_cache_using_std object in  *)
(* play (in shared mode: of _underlying_lru_cache).                        *)
(***************************************************************************)
EXTENDS Integers, Sequences, FiniteSets, TLC

\* ---------------------------------------------------------------- bounds
\* threads calling the shared cache
NThreads == 2
\* distinct keys
NKeys == 2
\* the capacity handed to the constructor ranges over 1..MaxCapacity
MaxCapacity == 3
\* calls of operator() on the shared cache in one run
MaxCalls == 2
\* calls of operator() on the stand-alone store whose sequence is recorded
MaxCoreCalls == 4

Threads == 1..NThreads
\* the keys are arguments of the test (x = i * n) on which fibonacci is not
\* the identity: 4, 5, ...
Keys == 4..(NKeys + 3)
\* the stand-alone store is called with one key more than the largest
\* capacity, so that a full store meets a key it does not hold
CoreKeys == 4..(MaxCapacity + 4)
\* a mutex is free (0) or held by a thread
Free == 0
\* identities of the heap-allocated per-key mutexes (new std::mutex): every
\* thread and every ticket references at most one, so this many are enough
MutexIds == 1..(NThreads + NKeys)
NoValue == 0

\* ------------------------------------------------- the cached function
\* fibonacci of the test; repeated_fibonacci returns fibonacci(x)
RECURSIVE fibonacci_loop(_, _, _, _, _)
fibonacci_loop(i, x, a, b, sum) ==
    IF i < x THEN fibonacci_loop(i + 1, x, a + b, a, a + b) ELSE sum

fibonacci(x) == fibonacci_loop(1, x, 1, 1, 1)

repeated_fibonacci(x) == fibonacci(x)

\* the function_type f handed to the constructors
_fn(key) == repeated_fibonacci(key)

\* values a caller of set(key, .) on the stand-alone store may pass: the
\* function's value and another one
SetValues(key) == {_fn(key), _fn(MaxCapacity + 5)}

VARIABLES
    mode,                        \* "core" or "shared": which object the run constructs
    _capacity,                   \* lru_cache_using_std::_capacity
    _key_tracker,                \* key access history, most recent at back
    _key_to_value,               \* key -> value (the list iterator is the key's node)
    _underlying_lru_cache_mutex, \* holder of the mutex guarding the underlying cache
    _is_being_evaluated,         \* key -> [mutex, active_threads]
    _is_being_evaluated_mutex,   \* holder of the mutex guarding _is_being_evaluated
    _hit_rate,                   \* [calls, hits, late_hits]
    _hit_rate_mutex,             \* holder of the mutex guarding _hit_rate
    mutex_owner,                 \* per-key mutex object -> holder
    pc,                          \* per thread: the line of operator() it stands at
    k,                           \* per thread: the argument of operator()
    key_specific_mutex,          \* per thread: the local shared_ptr (0 = nullptr)
    v,                           \* per thread: the local value
    returned,                    \* the return or exception out of operator() made by the last step: [thread, key, value, how]
    issued,                      \* calls of operator() issued so far
    called_keys,                 \* the keys operator() was called with so far
    fn_calls,                    \* invocations of _fn so far
    fn_failures,                 \* invocations of _fn that threw
    waited,                      \* per thread: it stood at the key mutex while another computed its key
    lost,                        \* per thread: while it waited, its key's computation failed or the key was evicted
    aborted,                     \* an assert failed in a build with assertions
    snapshot,                    \* the value get_hit_rate returned in the last step
    core_ret,                    \* result of the last core-store call
    accesses,                    \* the keys of the calls of operator() on the stand-alone store that returned, in order
    only_calls                   \* no set() nor evict(key) was called on the stand-alone store so far

store_vars == <<_key_tracker, _key_to_value>>
lock_vars == <<_underlying_lru_cache_mutex, _is_being_evaluated_mutex, _hit_rate_mutex, mutex_owner>>
thread_vars == <<pc, k, key_specific_mutex, v, returned>>
ghost_vars == <<issued, called_keys, fn_calls, fn_failures, waited, lost>>
shared_vars == <<_is_being_evaluated, _hit_rate, lock_vars, thread_vars, ghost_vars, aborted, snapshot>>
core_vars == <<core_ret, accesses, only_calls>>
vars == <<mode, _capacity, store_vars, shared_vars, core_vars>>

\* ======================================================================
\* lru_cache_using_std: the operations as functions of the object's state
\* c = [key_tracker |-> list of keys, key_to_value |-> map]
\* ======================================================================
Cache(kt, kv) == [key_tracker |-> kt, key_to_value |-> kv]

ThisCache == Cache(_key_tracker, _key_to_value)

MapErase(m, key) == [x \in (DOMAIN m) \ {key} |-> m[x]]

\* std::list::erase of the first node holding key (std::find from begin)
RECURSIVE ListEraseFirst(_, _)
ListEraseFirst(l, key) ==
    IF l = <<>> THEN <<>>
    ELSE IF Head(l) = key THEN Tail(l)
    ELSE <<Head(l)>> \o ListEraseFirst(Tail(l), key)

has(c, key) == key \in DOMAIN c.key_to_value

\* is_full() comparing with > where the code compares with >=
is_full_off_by_one(c) == Cardinality(DOMAIN c.key_to_value) > _capacity

is_full(c) == Cardinality(DOMAIN c.key_to_value) >= _capacity

\* evict() without the erase of the map entry (line 222)
evict_list_only(c) == Cache(Tail(c.key_tracker), c.key_to_value)

\* evict(): purge the least-recently-used element
evict(c) ==
    Cache(Tail(c.key_tracker), MapErase(c.key_to_value, Head(c.key_tracker)))

\* insert(k, v): record a fresh key-value pair
insert(c, key, val) ==
    LET c1 == IF is_full(c) THEN evict(c) ELSE c
    IN  Cache(Append(c1.key_tracker, key),
              IF key \in DOMAIN c1.key_to_value
                  THEN c1.key_to_value
                  ELSE (key :> val) @@ c1.key_to_value)

\* the branch taken when the record exists, without the splice
call_hit_no_splice(c, key) == c

\* operator()(k), the branch taken when the record exists: splice the key's
\* node to the back of the list
call_hit(c, key) ==
    Cache(Append(ListEraseFirst(c.key_tracker, key), key), c.key_to_value)

\* operator()(k), the branch taken when there is no record, _fn(k) having
\* returned val
call_miss(c, key, val) == insert(c, key, val)

\* set() that never records the pair
set_dropped(c, key, val) == c

\* set() that stores the new value over the one it finds
set_overwrite(c, key, val) ==
    IF ~has(c, key) THEN insert(c, key, val)
    ELSE Cache(c.key_tracker, [c.key_to_value EXCEPT ![key] = val])

\* set(k, v)
set(c, key, val) == IF ~has(c, key) THEN insert(c, key, val) ELSE c

\* evict(key) without the erase of the list node (lines 172-174)
evict_key_map_only(c, key) ==
    IF has(c, key) THEN Cache(c.key_tracker, MapErase(c.key_to_value, key)) ELSE c

\* evict(key)
evict_key(c, key) ==
    IF has(c, key)
        THEN Cache(ListEraseFirst(c.key_tracker, key), MapErase(c.key_to_value, key))
        ELSE c

\* the key that insert(c, key, _) purges, as a set (empty when none)
Purged(c) == IF is_full(c) THEN {Head(c.key_tracker)} ELSE {}

\* ======================================================================
\* shared_lru_cache_using_std::operator()(k), one action per step of a
\* thread; pc[t] names the line the thread stands at (waiting for the lock
\* taken there, or executing the statement there)
\* ======================================================================
Running == mode = "shared" /\ ~aborted

\* lines between the registration and the test of line 99
BeforeRecheck == {"L96", "L98", "L99"}

NoKey == 0

\* returned when the last step was no return, snapshot when it was no call
\* of get_hit_rate
NoReturn == [thread |-> 0, key |-> NoKey, value |-> NoValue, how |-> "none"]
NoSnapshot == [calls |-> 0, hits |-> 0, late_hits |-> 0, fresh |-> 0, pending |-> 0,
               in_flight |-> 0, taken |-> FALSE]

\* waited and lost after a step: a thread standing at line 96 while another
\* thread is inside _fn for the same key has waited for that computation;
\* gone is the set of keys whose computation failed or that were purged from
\* the cache in this step
Ghosts(gone) ==
    /\ waited' = [t \in Threads |->
          IF pc'[t] = "idle" THEN FALSE
          ELSE waited[t] \/ (pc'[t] = "L96" /\
                  \E u \in Threads \ {t} : pc'[u] = "L110" /\ k'[u] = k'[t])]
    /\ lost' = [t \in Threads |->
          IF pc'[t] = "idle" THEN FALSE
          ELSE lost[t] \/ (waited[t] /\ pc[t] \in BeforeRecheck /\ k[t] \in gone)]
    /\ snapshot' = NoSnapshot

\* the thread goes on to another line of operator()
Goto(t, line) ==
    /\ pc' = [pc EXCEPT ![t] = line]
    /\ returned' = NoReturn

\* return or exception out of operator(): the locals are destroyed
Leave(t, val, how) ==
    /\ pc' = [pc EXCEPT ![t] = "idle"]
    /\ k' = [k EXCEPT ![t] = NoKey]
    /\ key_specific_mutex' = [key_specific_mutex EXCEPT ![t] = 0]
    /\ v' = [v EXCEPT ![t] = NoValue]
    /\ returned' = [thread |-> t, key |-> k[t], value |-> val, how |-> how]

\* line 116 returning (*it).first, the key, for (*it).second.first
lookup_key(c, key) == key

\* line 116: the retrieved value, (*it).second.first
lookup(c, key) == c.key_to_value[key]

\* _underlying_lru_cache.operator()(key): [cache, value, evaluated]
underlying_call(c, key) ==
    IF has(c, key)
        THEN [cache |-> call_hit(c, key), value |-> lookup(c, key), evaluated |-> {}]
        ELSE [cache |-> call_miss(c, key, _fn(key)), value |-> _fn(key), evaluated |-> {key}]

\* a thread calls operator()(key)
Call(t, key) ==
    /\ Running
    /\ pc[t] = "idle"
    /\ issued < MaxCalls
    /\ Goto(t, "L55")
    /\ k' = [k EXCEPT ![t] = key]
    /\ issued' = issued + 1
    /\ called_keys' = called_keys \cup {key}
    /\ UNCHANGED <<mode, _capacity, store_vars, _is_being_evaluated, _hit_rate, lock_vars,
                   key_specific_mutex, v, fn_calls, fn_failures, aborted, core_vars>>
    /\ Ghosts({})

\* line 55: lock the cache; line 56: has(k) decides the branch
L55(t) ==
    /\ Running
    /\ pc[t] = "L55"
    /\ _underlying_lru_cache_mutex = Free
    /\ _underlying_lru_cache_mutex' = t
    /\ Goto(t, IF has(ThisCache, k[t]) THEN "L58" ELSE "L65")
    /\ UNCHANGED <<mode, _capacity, store_vars, _is_being_evaluated, _hit_rate,
                   _is_being_evaluated_mutex, _hit_rate_mutex, mutex_owner,
                   k, key_specific_mutex, v, issued, called_keys, fn_calls, fn_failures,
                   aborted, core_vars>>
    /\ Ghosts({})

\* lines 59-60 without ++_hit_rate.calls
count_hit_no_call(h) == [h EXCEPT !.hits = @ + 1]

\* lines 59-60
count_hit(h) == [h EXCEPT !.calls = @ + 1, !.hits = @ + 1]

\* line 66
count_miss(h) == [h EXCEPT !.calls = @ + 1]

\* line 104 left out
count_late_hit_forgotten(h) == h

\* line 104
count_late_hit(h) == [h EXCEPT !.late_hits = @ + 1]

\* lines 58, 65 and 103: lock _hit_rate_mutex (the cache mutex is held)
LockHitRate(t, from, to) ==
    /\ Running
    /\ pc[t] = from
    /\ _hit_rate_mutex = Free
    /\ _hit_rate_mutex' = t
    /\ Goto(t, to)
    /\ UNCHANGED <<mode, _capacity, store_vars, _is_being_evaluated, _hit_rate,
                   _underlying_lru_cache_mutex, _is_being_evaluated_mutex, mutex_owner,
                   k, key_specific_mutex, v, issued, called_keys, fn_calls, fn_failures,
                   aborted, core_vars>>
    /\ Ghosts({})

L58(t) == LockHitRate(t, "L58", "L59")

\* lines 59-61: count the call and the hit, unlock _hit_rate_mutex
L59(t) ==
    /\ Running
    /\ pc[t] = "L59"
    /\ _hit_rate' = count_hit(_hit_rate)
    /\ _hit_rate_mutex' = Free
    /\ Goto(t, "L62")
    /\ UNCHANGED <<mode, _capacity, store_vars, _is_being_evaluated,
                   _underlying_lru_cache_mutex, _is_being_evaluated_mutex, mutex_owner,
                   k, key_specific_mutex, v, issued, called_keys, fn_calls, fn_failures,
                   aborted, core_vars>>
    /\ Ghosts({})

\* line 62: return _underlying_lru_cache.operator()(k); the cache mutex is
\* unlocked on the way out
L62(t) ==
    /\ Running
    /\ pc[t] = "L62"
    /\ LET r == underlying_call(ThisCache, k[t])
       IN  /\ _key_tracker' = r.cache.key_tracker
           /\ _key_to_value' = r.cache.key_to_value
           /\ fn_calls' = fn_calls + Cardinality(r.evaluated)
           /\ Leave(t, r.value, "hit")
    /\ _underlying_lru_cache_mutex' = Free
    /\ UNCHANGED <<mode, _capacity, _is_being_evaluated, _hit_rate,
                   _is_being_evaluated_mutex, _hit_rate_mutex, mutex_owner,
                   issued, called_keys, fn_failures, aborted, core_vars>>
    /\ Ghosts({})

L65(t) == LockHitRate(t, "L65", "L66")

\* lines 66-67 with the guard of line 55 living on to the end of operator():
\* the cache mutex stays locked
L66_keep_cache_locked(t) ==
    /\ Running
    /\ pc[t] = "L66"
    /\ _hit_rate' = count_miss(_hit_rate)
    /\ _hit_rate_mutex' = Free
    /\ Goto(t, "L75")
    /\ UNCHANGED <<mode, _capacity, store_vars, _is_being_evaluated,
                   _underlying_lru_cache_mutex, _is_being_evaluated_mutex, mutex_owner,
                   k, key_specific_mutex, v, issued, called_keys, fn_calls, fn_failures,
                   aborted, core_vars>>
    /\ Ghosts({})

\* lines 66-68: count the call, unlock _hit_rate_mutex and the cache mutex
L66(t) ==
    /\ Running
    /\ pc[t] = "L66"
    /\ _hit_rate' = count_miss(_hit_rate)
    /\ _hit_rate_mutex' = Free
    /\ _underlying_lru_cache_mutex' = Free
    /\ Goto(t, "L75")
    /\ UNCHANGED <<mode, _capacity, store_vars, _is_being_evaluated,
                   _is_being_evaluated_mutex, mutex_owner,
                   k, key_specific_mutex, v, issued, called_keys, fn_calls, fn_failures,
                   aborted, core_vars>>
    /\ Ghosts({})

\* lines 75, 87: lock _is_being_evaluated_mutex
LockRegistry(t, from, to) ==
    /\ Running
    /\ pc[t] = from
    /\ _is_being_evaluated_mutex = Free
    /\ _is_being_evaluated_mutex' = t
    /\ Goto(t, to)
    /\ UNCHANGED <<mode, _capacity, store_vars, _is_being_evaluated, _hit_rate,
                   _underlying_lru_cache_mutex, _hit_rate_mutex, mutex_owner,
                   k, key_specific_mutex, v, issued, called_keys, fn_calls, fn_failures,
                   aborted, core_vars>>
    /\ Ghosts({})

L75(t) == LockRegistry(t, "L75", "L76")

\* the mutex objects some shared_ptr still points to
LiveMutexes ==
    {_is_being_evaluated[x].mutex : x \in DOMAIN _is_being_evaluated}
        \cup {key_specific_mutex[t] : t \in Threads}

\* new std::mutex: an object that is not alive
new_mutex == CHOOSE m \in MutexIds : m \notin LiveMutexes /\
                 \A n \in MutexIds : n \notin LiveMutexes => m <= n

\* lines 76-80 with line 78 outside the if: every caller gets a new mutex
find_or_create_always_new(reg, key) ==
    (key :> [mutex |-> new_mutex,
             active_threads |-> IF key \in DOMAIN reg THEN reg[key].active_threads ELSE {}])
        @@ reg

\* lines 76-80 with one mutex for all the keys: a new ticket takes the mutex
\* of a ticket that is already there
find_or_create_one_mutex(reg, key) ==
    IF key \in DOMAIN reg THEN reg
    ELSE (key :> [mutex |-> IF DOMAIN reg = {} THEN new_mutex
                            ELSE reg[CHOOSE x \in DOMAIN reg : TRUE].mutex,
                  active_threads |-> {}]) @@ reg

\* lines 76-80: the ticket of key, created if there is none
find_or_create(reg, key) ==
    IF key \in DOMAIN reg THEN reg
    ELSE (key :> [mutex |-> new_mutex, active_threads |-> {}]) @@ reg

\* line 83
register(reg, key, t) ==
    [reg EXCEPT ![key].active_threads = @ \cup {t}]

\* lines 76-84: take the key's ticket, enter active_threads, unlock.  The
\* assert of line 82 ends the program in a build with assertions; with NDEBUG
\* the insert of line 83 finds the id in the set and changes nothing.
L76(t) ==
    /\ Running
    /\ pc[t] = "L76"
    /\ LET reg == find_or_create(_is_being_evaluated, k[t])
       IN  \/ /\ t \in reg[k[t]].active_threads
              /\ aborted' = TRUE
              /\ UNCHANGED <<_is_being_evaluated, _is_being_evaluated_mutex, pc,
                             key_specific_mutex, returned>>
           \/ /\ _is_being_evaluated' = register(reg, k[t], t)
              /\ key_specific_mutex' = [key_specific_mutex EXCEPT ![t] = reg[k[t]].mutex]
              /\ _is_being_evaluated_mutex' = Free
              /\ Goto(t, "L96")
              /\ UNCHANGED aborted
    /\ UNCHANGED <<mode, _capacity, store_vars, _hit_rate,
                   _underlying_lru_cache_mutex, _hit_rate_mutex, mutex_owner,
                   k, v, issued, called_keys, fn_calls, fn_failures, core_vars>>
    /\ Ghosts({})


\* line 96: lock the key's mutex
L96(t) ==
    /\ Running
    /\ pc[t] = "L96"
    /\ mutex_owner[key_specific_mutex[t]] = Free
    /\ mutex_owner' = [mutex_owner EXCEPT ![key_specific_mutex[t]] = t]
    /\ Goto(t, "L98")
    /\ UNCHANGED <<mode, _capacity, store_vars, _is_being_evaluated, _hit_rate,
                   _underlying_lru_cache_mutex, _is_being_evaluated_mutex, _hit_rate_mutex,
                   k, key_specific_mutex, v, issued, called_keys, fn_calls, fn_failures,
                   aborted, core_vars>>
    /\ Ghosts({})

\* lines 98, 113: lock the cache
LockCache(t, from, to) ==
    /\ Running
    /\ pc[t] = from
    /\ _underlying_lru_cache_mutex = Free
    /\ _underlying_lru_cache_mutex' = t
    /\ Goto(t, to)
    /\ UNCHANGED <<mode, _capacity, store_vars, _is_being_evaluated, _hit_rate,
                   _is_being_evaluated_mutex, _hit_rate_mutex, mutex_owner,
                   k, key_specific_mutex, v, issued, called_keys, fn_calls, fn_failures,
                   aborted, core_vars>>
    /\ Ghosts({})

L98(t) == LockCache(t, "L98", "L99")

\* lines 98-110 without the test of line 99: unlock the cache and call
\* _fn(k) whether the key is there or not
L99_no_recheck(t) ==
    /\ Running
    /\ pc[t] = "L99"
    /\ _underlying_lru_cache_mutex' = Free
    /\ fn_calls' = fn_calls + 1
    /\ Goto(t, "L110")
    /\ UNCHANGED <<mode, _capacity, store_vars, _is_being_evaluated, _hit_rate,
                   _is_being_evaluated_mutex, _hit_rate_mutex, mutex_owner,
                   k, key_specific_mutex, v, issued, called_keys, fn_failures,
                   aborted, core_vars>>
    /\ Ghosts({})

\* lines 99-100 and 108-110: the key is there: fetch it, keep the cache
\* locked and go on to done(); the key is not there: unlock the cache and
\* call _fn(k)
L99(t) ==
    /\ Running
    /\ pc[t] = "L99"
    /\ IF has(ThisCache, k[t])
          THEN LET r == underlying_call(ThisCache, k[t])
               IN  /\ _key_tracker' = r.cache.key_tracker
                   /\ _key_to_value' = r.cache.key_to_value
                   /\ v' = [v EXCEPT ![t] = r.value]
                   /\ Goto(t, "L101")
                   /\ UNCHANGED <<_underlying_lru_cache_mutex, fn_calls>>
          ELSE /\ _underlying_lru_cache_mutex' = Free
               /\ fn_calls' = fn_calls + 1
               /\ Goto(t, "L110")
               /\ UNCHANGED <<store_vars, v>>
    /\ UNCHANGED <<mode, _capacity, _is_being_evaluated, _hit_rate,
                   _is_being_evaluated_mutex, _hit_rate_mutex, mutex_owner,
                   k, key_specific_mutex, issued, called_keys, fn_failures,
                   aborted, core_vars>>
    /\ Ghosts({})

\* line 101: done() locks _is_being_evaluated_mutex (line 87) with the cache
\* mutex and the key's mutex held
L101(t) == LockRegistry(t, "L101", "L101_88")

\* lines 88-93: leave active_threads, erase the ticket when the set is empty
done(reg, key, t) ==
    LET rest == reg[key].active_threads \ {t}
    IN  IF rest = {} THEN MapErase(reg, key)
        ELSE [reg EXCEPT ![key].active_threads = rest]

\* the asserted condition of line 89 (and i pointing at a ticket at all)
done_assertion(reg, key, t) ==
    key \in DOMAIN reg /\ t \in reg[key].active_threads

\* lines 88-94: the body of done(), then unlock _is_being_evaluated_mutex
DoneBody(t, from, to) ==
    /\ Running
    /\ pc[t] = from
    /\ \/ /\ ~done_assertion(_is_being_evaluated, k[t], t)
          /\ aborted' = TRUE
          /\ UNCHANGED <<_is_being_evaluated, _is_being_evaluated_mutex, pc, returned>>
       \/ /\ k[t] \in DOMAIN _is_being_evaluated
          /\ _is_being_evaluated' = done(_is_being_evaluated, k[t], t)
          /\ _is_being_evaluated_mutex' = Free
          /\ Goto(t, to)
          /\ UNCHANGED aborted
    /\ UNCHANGED <<mode, _capacity, store_vars, _hit_rate,
                   _underlying_lru_cache_mutex, _hit_rate_mutex, mutex_owner,
                   k, key_specific_mutex, v, issued, called_keys, fn_calls, fn_failures, core_vars>>
    /\ Ghosts({})

L101_88(t) == DoneBody(t, "L101_88", "L103")

\* line 103: lock _hit_rate_mutex, the cache mutex and the key's mutex held
L103(t) == LockHitRate(t, "L103", "L104")

\* lines 104-106: count the late hit and return v; the guards of lines 103,
\* 98 and 96 unlock
L104(t) ==
    /\ Running
    /\ pc[t] = "L104"
    /\ _hit_rate' = count_late_hit(_hit_rate)
    /\ _hit_rate_mutex' = Free
    /\ _underlying_lru_cache_mutex' = Free
    /\ mutex_owner' = [mutex_owner EXCEPT ![key_specific_mutex[t]] = Free]
    /\ Leave(t, v[t], "late_hit")
    /\ UNCHANGED <<mode, _capacity, store_vars, _is_being_evaluated,
                   _is_being_evaluated_mutex, issued, called_keys, fn_calls, fn_failures,
                   aborted, core_vars>>
    /\ Ghosts({})

\* line 110: _fn(k) returns
L110(t) ==
    /\ Running
    /\ pc[t] = "L110"
    /\ v' = [v EXCEPT ![t] = _fn(k[t])]
    /\ Goto(t, "L113")
    /\ UNCHANGED <<mode, _capacity, store_vars, _is_being_evaluated, _hit_rate, lock_vars,
                   k, key_specific_mutex, issued, called_keys, fn_calls, fn_failures,
                   aborted, core_vars>>
    /\ Ghosts({})

\* line 110: _fn(k) throws; the exception leaves operator(): the guard of
\* line 96 unlocks the key's mutex, nothing else runs (done() is not called)
L110_throw(t) ==
    /\ Running
    /\ pc[t] = "L110"
    /\ mutex_owner' = [mutex_owner EXCEPT ![key_specific_mutex[t]] = Free]
    /\ fn_failures' = fn_failures + 1
    /\ Leave(t, NoValue, "failed")
    /\ UNCHANGED <<mode, _capacity, store_vars, _is_being_evaluated, _hit_rate,
                   _underlying_lru_cache_mutex, _is_being_evaluated_mutex, _hit_rate_mutex,
                   issued, called_keys, fn_calls, aborted, core_vars>>
    /\ Ghosts({k[t]})

L113(t) == LockCache(t, "L113", "L114")

\* lines 114-116: assert the key is not there, set(k, v), unlock the cache
L114(t) ==
    /\ Running
    /\ pc[t] = "L114"
    /\ UNCHANGED <<mode, _capacity, _is_being_evaluated, _hit_rate,
                   _is_being_evaluated_mutex, _hit_rate_mutex, mutex_owner,
                   k, key_specific_mutex, v, issued, called_keys, fn_calls, fn_failures, core_vars>>
    /\ \/ /\ has(ThisCache, k[t])
          /\ aborted' = TRUE
          /\ UNCHANGED <<store_vars, _underlying_lru_cache_mutex, pc, returned>>
          /\ Ghosts({})
       \/ /\ LET c == set(ThisCache, k[t], v[t])
             IN  /\ _key_tracker' = c.key_tracker
                 /\ _key_to_value' = c.key_to_value
          /\ _underlying_lru_cache_mutex' = Free
          /\ Goto(t, "L118")
          /\ UNCHANGED aborted
          /\ Ghosts(IF has(ThisCache, k[t]) THEN {} ELSE Purged(ThisCache))

\* line 118: done() locks _is_being_evaluated_mutex (line 87), the key's
\* mutex held
L118(t) == LockRegistry(t, "L118", "L118_88")

L118_88(t) == DoneBody(t, "L118_88", "L119")

\* line 119 with the key's mutex locked by hand and not unlocked on return
L119_no_unlock(t) ==
    /\ Running
    /\ pc[t] = "L119"
    /\ Leave(t, v[t], "fresh")
    /\ UNCHANGED <<mode, _capacity, store_vars, _is_being_evaluated, _hit_rate, lock_vars,
                   issued, called_keys, fn_calls, fn_failures, aborted, core_vars>>
    /\ Ghosts({})

\* line 119: return v; the guard of line 96 unlocks the key's mutex
L119(t) ==
    /\ Running
    /\ pc[t] = "L119"
    /\ mutex_owner' = [mutex_owner EXCEPT ![key_specific_mutex[t]] = Free]
    /\ Leave(t, v[t], "fresh")
    /\ UNCHANGED <<mode, _capacity, store_vars, _is_being_evaluated, _hit_rate,
                   _underlying_lru_cache_mutex, _is_being_evaluated_mutex, _hit_rate_mutex,
                   issued, called_keys, fn_calls, fn_failures, aborted, core_vars>>
    /\ Ghosts({})

\* callers counted by line 66 and not yet by line 104 nor by a call of _fn
Pending == Cardinality({t \in Threads :
              pc[t] \in {"L75", "L76", "L96", "L98", "L99", "L101", "L101_88", "L103", "L104"}})

InFlight == Cardinality({t \in Threads : pc[t] # "idle"})

\* get_hit_rate(): lock _hit_rate_mutex, copy _hit_rate, unlock.  Beside the
\* copy, the record notes the invocations of _fn so far and the pending and
\* in-flight callers at that moment.
get_hit_rate ==
    /\ Running
    /\ _hit_rate_mutex = Free
    /\ snapshot' = [calls |-> _hit_rate.calls, hits |-> _hit_rate.hits,
                    late_hits |-> _hit_rate.late_hits,
                    fresh |-> fn_calls, pending |-> Pending,
                    in_flight |-> InFlight, taken |-> TRUE]
    /\ returned' = NoReturn
    /\ UNCHANGED <<mode, _capacity, store_vars, _is_being_evaluated, _hit_rate, lock_vars,
                   pc, k, key_specific_mutex, v, ghost_vars, aborted, core_vars>>

\* ======================================================================
\* the stand-alone lru_cache_using_std, called sequentially
\* ======================================================================
CoreRunning == mode = "core"

CoreStep(c, ret) ==
    /\ CoreRunning
    /\ _key_tracker' = c.key_tracker
    /\ _key_to_value' = c.key_to_value
    /\ core_ret' = ret
    /\ UNCHANGED <<mode, _capacity, shared_vars>>

CoreRet(op, key, val, flag) == [op |-> op, key |-> key, value |-> val, flag |-> flag]

\* operator()(key), _fn returning; flag: _fn was called
core_call(key) ==
    /\ only_calls => Len(accesses) < MaxCoreCalls
    /\ LET r == underlying_call(ThisCache, key)
       IN  CoreStep(r.cache, CoreRet("call", key, r.value, r.evaluated # {}))
    /\ accesses' = IF only_calls THEN Append(accesses, key) ELSE accesses
    /\ UNCHANGED only_calls

\* operator()(key) making room (lines 191-192) before it calls _fn, which
\* throws
core_call_throw_evict_first(key) ==
    /\ ~has(ThisCache, key)
    /\ CoreStep(IF is_full(ThisCache) THEN evict(ThisCache) ELSE ThisCache,
                CoreRet("throw", key, NoValue, TRUE))
    /\ UNCHANGED <<accesses, only_calls>>

\* operator()(key) with no record of key, _fn throwing at line 81
core_call_throw(key) ==
    /\ ~has(ThisCache, key)
    /\ CoreStep(ThisCache, CoreRet("throw", key, NoValue, TRUE))
    /\ UNCHANGED <<accesses, only_calls>>

\* has(key) looking the key up the way operator() does, with the splice
core_has_touching(key) ==
    /\ CoreStep(IF has(ThisCache, key) THEN call_hit(ThisCache, key) ELSE ThisCache,
                CoreRet("has", key, NoValue, has(ThisCache, key)))
    /\ UNCHANGED <<accesses, only_calls>>

\* has(key); flag: the result
core_has(key) ==
    /\ CoreStep(ThisCache, CoreRet("has", key, NoValue, has(ThisCache, key)))
    /\ UNCHANGED <<accesses, only_calls>>

core_set(key, val) ==
    /\ CoreStep(set(ThisCache, key, val), CoreRet("set", key, val, FALSE))
    /\ accesses' = <<>>
    /\ only_calls' = FALSE

\* evict(key); flag: the item existed (line 168)
core_evict(key) ==
    /\ CoreStep(evict_key(ThisCache, key), CoreRet("evict", key, NoValue, has(ThisCache, key)))
    /\ accesses' = <<>>
    /\ only_calls' = FALSE

\* is_full(); flag: the result
core_is_full ==
    /\ CoreStep(ThisCache, CoreRet("is_full", NoKey, NoValue, is_full(ThisCache)))
    /\ UNCHANGED <<accesses, only_calls>>

\* ======================================================================
Init ==
    /\ mode \in {"core", "shared"}
    /\ _capacity \in 1..MaxCapacity
    /\ _key_tracker = <<>>
    /\ _key_to_value = <<>>
    /\ _underlying_lru_cache_mutex = Free
    /\ _is_being_evaluated = <<>>
    /\ _is_being_evaluated_mutex = Free
    /\ _hit_rate = [calls |-> 0, hits |-> 0, late_hits |-> 0]
    /\ _hit_rate_mutex = Free
    /\ mutex_owner = [m \in MutexIds |-> Free]
    /\ pc = [t \in Threads |-> "idle"]
    /\ k = [t \in Threads |-> NoKey]
    /\ key_specific_mutex = [t \in Threads |-> 0]
    /\ v = [t \in Threads |-> NoValue]
    /\ returned = NoReturn
    /\ issued = 0
    /\ called_keys = {}
    /\ fn_calls = 0
    /\ fn_failures = 0
    /\ waited = [t \in Threads |-> FALSE]
    /\ lost = [t \in Threads |-> FALSE]
    /\ aborted = FALSE
    /\ snapshot = NoSnapshot
    /\ core_ret = CoreRet("none", NoKey, NoValue, FALSE)
    /\ accesses = <<>>
    /\ only_calls = TRUE

Next ==
    \/ \E t \in Threads, key \in Keys : Call(t, key)
    \/ \E t \in Threads : L55(t)
    \/ \E t \in Threads : L58(t)
    \/ \E t \in Threads : L59(t)
    \/ \E t \in Threads : L62(t)
    \/ \E t \in Threads : L65(t)
    \/ \E t \in Threads : L66(t)
    \/ \E t \in Threads : L75(t)
    \/ \E t \in Threads : L76(t)
    \/ \E t \in Threads : L96(t)
    \/ \E t \in Threads : L98(t)
    \/ \E t \in Threads : L99(t)
    \/ \E t \in Threads : L101(t)
    \/ \E t \in Threads : L101_88(t)
    \/ \E t \in Threads : L103(t)
    \/ \E t \in Threads : L104(t)
    \/ \E t \in Threads : L110(t)
    \/ \E t \in Threads : L110_throw(t)
    \/ \E t \in Threads : L113(t)
    \/ \E t \in Threads : L114(t)
    \/ \E t \in Threads : L118(t)
    \/ \E t \in Threads : L118_88(t)
    \/ \E t \in Threads : L119(t)
    \/ \E key \in CoreKeys : core_call(key)
    \/ \E key \in CoreKeys : core_call_throw(key)
    \/ \E key \in CoreKeys : core_has(key)
    \/ \E key \in CoreKeys : \E val \in SetValues(key) : core_set(key, val)
    \/ \E key \in CoreKeys : core_evict(key)
    \/ core_is_full

Spec == Init /\ [][Next]_vars

\* the same program with an observer that calls get_hit_rate() at any moment
ObsNext == Next \/ get_hit_rate

ObsSpec == Init /\ [][ObsNext]_vars

\* a step of thread t inside operator()
Step(t) ==
    \/ L55(t) \/ L58(t) \/ L59(t) \/ L62(t) \/ L65(t) \/ L66(t)
    \/ L75(t) \/ L76(t) \/ L96(t) \/ L98(t) \/ L99(t)
    \/ L101(t) \/ L101_88(t) \/ L103(t) \/ L104(t)
    \/ L110(t) \/ L110_throw(t)
    \/ L113(t) \/ L114(t) \/ L118(t) \/ L118_88(t) \/ L119(t)

\* fair scheduling: a thread that can take a step of operator() eventually
\* takes one; in particular every call of _fn ends (returns or throws)
FairSpec == Spec /\ \A t \in Threads : WF_vars(Step(t))


\* ======================================================================
\* Properties
\* ======================================================================
AllIdle == \A t \in Threads : pc[t] = "idle"

Registered(t) == {key \in DOMAIN _is_being_evaluated :
                     t \in _is_being_evaluated[key].active_threads}

\* C1: in every reachable state, of the stand-alone store under any sequence
\* of operator(), set and evict(key) and of the shared cache under any
\* interleaving of callers, the store holds at most _capacity entries.
C1_CapacityInvariant ==
    /\ Cardinality(DOMAIN _key_to_value) <= _capacity
    /\ Len(_key_tracker) <= _capacity

\* the shared cache is full after more computations than it has room for
C1_Witness ==
    /\ mode = "shared"
    /\ Cardinality(DOMAIN _key_to_value) = _capacity
    /\ fn_calls > _capacity

\* C2: every call of operator()(key) on the shared cache that returns (as a
\* hit, a late hit or after a fresh computation) returns _fn(key).
C2_ReturnsFunctionValue ==
    returned.how \in {"hit", "late_hit", "fresh"} => returned.value = _fn(returned.key)

\* a call returns as a late hit: the value comes from the store, where
\* another caller has put it
C2_Witness == returned.how = "late_hit" /\ returned.value = _fn(returned.key)

\* C3: no two threads are inside _fn (line 110) for the same key at once.
C3_OneComputationPerKey ==
    \A t, u \in Threads :
        (t # u /\ pc[t] = "L110" /\ pc[u] = "L110") => k[t] # k[u]

\* a thread is inside _fn while another thread, called with the same key,
\* stands at the key's mutex
C3_Witness ==
    \E t, u \in Threads :
        /\ t # u /\ pc[t] = "L110" /\ pc[u] = "L96" /\ k[t] = k[u]
        /\ key_specific_mutex[t] = key_specific_mutex[u]

\* C4: when all the calls made so far are for one key, missing at the start,
\* and _fn has not failed, _fn is invoked at most once; once all the N calls
\* have returned it has been invoked exactly once and the other N-1 calls
\* were counted as hits or late hits.
C4_SingleComputation ==
    (Cardinality(called_keys) = 1 /\ fn_failures = 0) =>
        /\ fn_calls <= 1
        /\ AllIdle => /\ fn_calls = 1
                      /\ _hit_rate.calls = issued
                      /\ _hit_rate.hits + _hit_rate.late_hits = issued - 1

\* two calls for the same key overlapped: one computed, the other returned with a late hit
C4_Witness ==
    /\ Cardinality(called_keys) = 1 /\ fn_failures = 0 /\ AllIdle
    /\ issued >= 2 /\ _hit_rate.late_hits >= 1


FreshPath == {"L110", "L113", "L114", "L118", "L118_88", "L119"}

Blocker(t) ==
    IF pc[t] \in {"L55", "L98", "L113"} THEN _underlying_lru_cache_mutex
    ELSE IF pc[t] \in {"L58", "L65", "L103"} THEN _hit_rate_mutex
    ELSE IF pc[t] \in {"L75", "L101", "L118"} THEN _is_being_evaluated_mutex
    ELSE IF pc[t] = "L96" THEN mutex_owner[key_specific_mutex[t]]
    ELSE Free

\* C6: under fair scheduling every call of operator() eventually ends (by a
\* return or by the exception of _fn), and in no state are all the callers
\* inside operator() waiting for a lock: one of them can take its next step.
\* The program is ended by abort() only at a failed assert, and no assert
\* fails unless _fn has failed before.
C6_NoDeadlock ==
    /\ [](aborted => fn_failures > 0)
    /\ []((~aborted /\ ~AllIdle) =>
            \E t \in Threads : pc[t] # "idle" /\ Blocker(t) = Free /\ ENABLED Step(t))
    /\ \A t \in Threads : (pc[t] # "idle") ~> (pc[t] = "idle" \/ aborted)

\* a caller waits for the key's mutex, held by the caller computing the key
C6_Witness ==
    \E t \in Threads : pc[t] = "L96" /\ Blocker(t) # Free /\ pc[Blocker(t)] = "L110"

HeldMutexes(t) == {m \in MutexIds : mutex_owner[m] = t}

\* C7: a thread inside _fn holds none of the three shared mutexes and only
\* the mutex of its own key's ticket, which no caller of another key uses;
\* so no caller of another key waits for a lock held by a thread inside _fn.
C7_ComputeHoldsOnlyOwnKey ==
    \A t \in Threads : pc[t] = "L110" =>
        /\ _underlying_lru_cache_mutex # t
        /\ _is_being_evaluated_mutex # t
        /\ _hit_rate_mutex # t
        /\ HeldMutexes(t) = {key_specific_mutex[t]}
        /\ \A u \in Threads :
              (pc[u] # "idle" /\ k[u] # k[t]) =>
                  /\ key_specific_mutex[u] # key_specific_mutex[t]
                  /\ Blocker(u) # t

\* a call for another key returns after a fresh computation while a thread
\* is inside _fn
C7_Witness ==
    \E t \in Threads :
        /\ pc[t] = "L110"
        /\ returned.how = "fresh" /\ returned.key # k[t] /\ returned.thread # t

\* C8: a snapshot taken by get_hit_rate() while no call of operator() is in
\* progress satisfies calls = hits + late_hits + invocations of _fn.
C8_AccountingAtRest ==
    (snapshot.taken /\ snapshot.in_flight = 0) =>
        snapshot.calls = snapshot.hits + snapshot.late_hits + snapshot.fresh

\* a snapshot at rest after a computation and a late hit
C8_Witness ==
    /\ snapshot.taken /\ snapshot.in_flight = 0
    /\ snapshot.late_hits >= 1 /\ snapshot.fresh >= 1

\* C9 as stated: every snapshot taken by get_hit_rate(), also with calls in
\* progress, satisfies calls = hits + late_hits + invocations of _fn.
C9_AccountingAlways ==
    snapshot.taken => snapshot.calls = snapshot.hits + snapshot.late_hits + snapshot.fresh

\* C9, amended: every snapshot satisfies calls = hits + late_hits +
\* invocations of _fn + the callers counted by line 66 that have neither
\* counted a late hit nor invoked _fn yet.
C9_AccountingWithPending ==
    snapshot.taken =>
        snapshot.calls = snapshot.hits + snapshot.late_hits + snapshot.fresh + snapshot.pending

\* a snapshot taken while a counted caller is still before its late hit or its computation
C9_Witness == snapshot.taken /\ snapshot.pending > 0 /\ snapshot.fresh > 0

\* C10: when _fn has thrown out of operator(), the caller is in no ticket's
\* active_threads and the key's mutex is unlocked.
C10_FailureCleanup ==
    returned.how = "failed" =>
        /\ Registered(returned.thread) = {}
        /\ HeldMutexes(returned.thread) = {}

\* C11: after _fn has failed for a key, a later call of operator() for that
\* key, by the caller that saw the failure or by another one, trips no
\* assertion: a caller that stands at the registration (line 82) is not in
\* the active_threads of its key's ticket, and the program is not aborted.
C11_RetryAfterFailure ==
    /\ ~aborted
    /\ \A t \in Threads : pc[t] = "L76" => k[t] \notin Registered(t)

\* s without the occurrences of x
Without(s, x) == SelectSeq(s, LAMBDA y : y # x)

\* the distinct keys of a sequence of accesses, ordered by last access
RECURSIVE LastAccessOrder(_)
LastAccessOrder(s) ==
    IF s = <<>> THEN <<>>
    ELSE Append(Without(LastAccessOrder(SubSeq(s, 1, Len(s) - 1)), s[Len(s)]), s[Len(s)])

\* the c most recently accessed distinct keys of s, ordered by last access
MostRecent(s, c) ==
    LET o == LastAccessOrder(s)
    IN  IF Len(o) <= c THEN o ELSE SubSeq(o, Len(o) - c + 1, Len(o))

\* C12: after any sequence of calls of operator() on the stand-alone store
\* (no set, no evict(key)), the store holds exactly the min(_capacity, number
\* of distinct keys) most recently accessed distinct keys, ordered by last
\* access, each with the value of _fn; and a call that misses on a full store
\* purges exactly one entry, the key whose last access is the oldest.
C12_RecencyOrder ==
    /\ []((mode = "core" /\ only_calls) =>
            /\ _key_tracker = MostRecent(accesses, _capacity)
            /\ DOMAIN _key_to_value = {_key_tracker[i] : i \in 1..Len(_key_tracker)}
            /\ \A key \in DOMAIN _key_to_value : _key_to_value[key] = _fn(key))
    /\ [][(/\ mode = "core" /\ only_calls
           /\ Len(accesses') = Len(accesses) + 1
           /\ accesses'[Len(accesses')] \notin DOMAIN _key_to_value
           /\ Cardinality(DOMAIN _key_to_value) = _capacity) =>
              /\ DOMAIN _key_to_value \ DOMAIN _key_to_value' =
                     {Head(MostRecent(accesses, _capacity))}
              /\ DOMAIN _key_to_value' \ DOMAIN _key_to_value =
                     {accesses'[Len(accesses')]}]_vars

\* the accesses [a, b, a, c] on a store of capacity 2 leave a and c
C12_Witness ==
    /\ mode = "core" /\ only_calls /\ _capacity = 2
    /\ accesses = <<4, 5, 4, 6>>
    /\ _key_tracker = <<4, 6>>
    /\ DOMAIN _key_to_value = {4, 6}

\* C13: on the stand-alone store, evict(key) of a present key removes the
\* key from the map and from the list and leaves the other entries, their
\* values and their relative order as they were; evict(key) of an absent key
\* changes nothing; and a call of operator()(key) right after evict(key)
\* misses: it invokes _fn and returns _fn(key).
C13_EvictKey ==
    /\ [][(mode = "core" /\ core_ret'.op = "evict") =>
             IF core_ret'.key \in DOMAIN _key_to_value
                 THEN /\ DOMAIN _key_to_value' = DOMAIN _key_to_value \ {core_ret'.key}
                      /\ \A x \in DOMAIN _key_to_value' : _key_to_value'[x] = _key_to_value[x]
                      /\ _key_tracker' = Without(_key_tracker, core_ret'.key)
                 ELSE UNCHANGED store_vars]_vars
    /\ []((mode = "core" /\ core_ret.op = "evict") =>
             /\ core_ret.key \notin DOMAIN _key_to_value
             /\ \A i \in 1..Len(_key_tracker) : _key_tracker[i] # core_ret.key)
    /\ [][(mode = "core" /\ core_ret.op = "evict" /\ core_ret'.op = "call"
                /\ core_ret'.key = core_ret.key) =>
             /\ core_ret'.flag
             /\ core_ret'.value = _fn(core_ret.key)
             /\ core_ret.key \in DOMAIN _key_to_value']_vars

\* evict(key) has just removed a present key from a full store of three:
\* the two other entries stay, in their order
C13_Witness ==
    /\ mode = "core" /\ core_ret.op = "evict" /\ core_ret.flag
    /\ _capacity = 3 /\ Len(_key_tracker) = 2
    /\ core_ret.key \notin DOMAIN _key_to_value
    /\ core_ret.key > _key_tracker[1] /\ core_ret.key < _key_tracker[2]

\* C14: on the stand-alone store, set(key, value) of a present key changes
\* nothing, whatever the value: the stored value, the keys, the size and the
\* list (the key's position included) stay; set(key, value) of an absent key
\* records the pair as the most recent one, after purging the
\* least-recently-used entry when the store is full.
C14_SetIfAbsent ==
    [][(mode = "core" /\ core_ret'.op = "set") =>
          IF core_ret'.key \in DOMAIN _key_to_value
              THEN UNCHANGED store_vars
              ELSE LET full == Len(_key_tracker) >= _capacity
                       kept == IF full THEN Tail(_key_tracker) ELSE _key_tracker
                   IN  /\ _key_tracker' = Append(kept, core_ret'.key)
                       /\ DOMAIN _key_to_value' =
                              {kept[i] : i \in 1..Len(kept)} \cup {core_ret'.key}
                       /\ _key_to_value'[core_ret'.key] = core_ret'.value
                       /\ \A i \in 1..Len(kept) :
                              _key_to_value'[kept[i]] = _key_to_value[kept[i]]]_vars

\* set() was just called with another value for a present key that is not
\* the most recent one: the stored value and the key's place are as before
C14_Witness ==
    /\ mode = "core" /\ core_ret.op = "set"
    /\ core_ret.key \in DOMAIN _key_to_value
    /\ _key_to_value[core_ret.key] # core_ret.value
    /\ _key_tracker[Len(_key_tracker)] # core_ret.key

\* C15: on the stand-alone store, has(key) returns true exactly when the key
\* has an entry and changes nothing: the map and the list, and with it the
\* next key to be purged, are after the call what they were before, for a
\* present key and for an absent one.
C15_HasIsPure ==
    /\ [][(mode = "core" /\ core_ret'.op = "has") =>
             /\ core_ret'.flag = (core_ret'.key \in DOMAIN _key_to_value)
             /\ UNCHANGED store_vars]_vars
    /\ []((mode = "core" /\ core_ret.op = "has") =>
             core_ret.flag = (core_ret.key \in DOMAIN _key_to_value))

\* has() has just returned true for the least-recently-used key of a full
\* store: the key is still the next one to be purged
C15_Witness ==
    /\ mode = "core" /\ core_ret.op = "has" /\ core_ret.flag
    /\ Len(_key_tracker) = _capacity /\ _capacity >= 2
    /\ Head(_key_tracker) = core_ret.key

\* C16: in every reachable state the keys of _key_to_value are the keys of
\* _key_tracker, every key occurs once in _key_tracker, and the two have the
\* same size: after any sequence of operator(), set, evict(key) and purges
\* by insert, no key is in only one of them.
C16_Bijection ==
    /\ DOMAIN _key_to_value = {_key_tracker[i] : i \in 1..Len(_key_tracker)}
    /\ \A i, j \in 1..Len(_key_tracker) : i # j => _key_tracker[i] # _key_tracker[j]
    /\ Len(_key_tracker) = Cardinality(DOMAIN _key_to_value)

\* the stand-alone store, full, holding a value put by set, right after a
\* call of operator() that missed and recorded its key
C16_Witness ==
    /\ mode = "core" /\ ~only_calls
    /\ core_ret.op = "call" /\ core_ret.flag
    /\ _capacity = 3 /\ Len(_key_tracker) = 3
    /\ \E key \in DOMAIN _key_to_value : _key_to_value[key] # _fn(key)

\* the lines at which a thread waits for a lock, by lock
AtKeyMutex == {"L96"}
AtCacheMutex == {"L55", "L98", "L113"}
AtRegistryMutex == {"L75", "L101", "L118"}
AtHitRateMutex == {"L58", "L65", "L103"}

\* C17 as stated: a caller that holds the cache mutex never stands at the
\* lock of the registry mutex or of a key's mutex, on any path of operator().
C17_CacheGuardNeverHeldAtRegistry ==
    \A t \in Threads :
        _underlying_lru_cache_mutex = t => pc[t] \notin (AtRegistryMutex \cup AtKeyMutex)

\* C17, amended: the locks are taken in the order key's mutex, cache mutex,
\* registry mutex or hit-rate mutex.  A caller that holds the cache mutex
\* never stands at the lock of a key's mutex; it stands at the lock of the
\* registry mutex on the late-hit path (done() of line 101) and nowhere
\* else; a caller that holds the registry mutex or the hit-rate mutex stands
\* at no lock; and no caller stands at the lock of the cache mutex or of a
\* key's mutex while it holds the cache, registry or hit-rate mutex.
C17_LockOrder ==
    \A t \in Threads :
        /\ _underlying_lru_cache_mutex = t =>
              /\ pc[t] \notin AtKeyMutex \cup AtCacheMutex
              /\ pc[t] \in AtRegistryMutex => pc[t] = "L101"
        /\ pc[t] = "L101" => _underlying_lru_cache_mutex = t
        /\ _is_being_evaluated_mutex = t => pc[t] \in {"L76", "L101_88", "L118_88"}
        /\ _hit_rate_mutex = t => pc[t] \in {"L59", "L66", "L104"}
        /\ pc[t] \in AtKeyMutex => HeldMutexes(t) = {}

\* a caller that waited for another's computation found the key at line 99
\* and stands at done(): it holds the cache mutex and its key's mutex and
\* is about to lock the registry mutex
C17_Witness ==
    \E t \in Threads :
        /\ pc[t] = "L101" /\ waited[t]
        /\ _underlying_lru_cache_mutex = t
        /\ HeldMutexes(t) = {key_specific_mutex[t]}
        /\ k[t] \in Registered(t)

\* the callers between their registration (line 83) and their
\* deregistration (done(), line 90) for key
Participants(key) ==
    {t \in Threads : k[t] = key /\
        pc[t] \in {"L96", "L98", "L99", "L101", "L101_88", "L110", "L113", "L114",
                   "L118", "L118_88"}}

\* C18: in every reachable state with the registry mutex free, a key has a
\* ticket in _is_being_evaluated exactly when some caller is between its
\* registration and its deregistration for the key, the ticket's
\* active_threads being the set of those callers; so the registry is empty
\* whenever no call is in flight.
C18_TicketLifecycle ==
    _is_being_evaluated_mutex = Free =>
        /\ DOMAIN _is_being_evaluated = {key \in Keys : Participants(key) # {}}
        /\ \A key \in DOMAIN _is_being_evaluated :
              _is_being_evaluated[key].active_threads = Participants(key)
        /\ AllIdle => _is_being_evaluated = <<>>

\* C19: from the re-check of line 99 that found the key absent to the
\* publication of line 115, the caller's key is not in the store, whatever
\* the other callers do: the assert of line 114 never fails, and set()
\* records the computed value as the most recent entry.
C19_PublishFindsKeyAbsent ==
    /\ [](\A t \in Threads :
             pc[t] \in {"L110", "L113", "L114"} => ~has(ThisCache, k[t]))
    /\ [][\A t \in Threads :
             (pc[t] = "L114" /\ pc'[t] = "L118") =>
                 /\ k[t] \notin DOMAIN _key_to_value
                 /\ k[t] \in DOMAIN _key_to_value'
                 /\ _key_to_value'[k[t]] = v[t]
                 /\ _key_tracker' # _key_tracker
                 /\ _key_tracker'[Len(_key_tracker')] = k[t]]_vars

\* a caller holds the cache mutex to publish its key while another caller
\* of the same key waits at the key's mutex
C19_Witness ==
    \E t, u \in Threads :
        /\ pc[t] = "L114" /\ _underlying_lru_cache_mutex = t
        /\ pc[u] = "L96" /\ k[u] = k[t] /\ waited[u]
        /\ ~has(ThisCache, k[t])

\* the lines a call of operator() on the shared cache passes on its way to
\* _fn (line 110) after it missed at line 56
MissPath == {"L55", "L65", "L66", "L75", "L76", "L96", "L98", "L99", "L110"}

\* C20: a call whose _fn throws publishes nothing and leaves the store as it
\* was.  On the stand-alone store the failed operator()(k) changes neither
\* the map nor the list and k stays absent.  On the shared cache no step of
\* the failing call (the steps that take it along MissPath and the throw
\* itself) changes the map or the list, and k is absent when the exception
\* leaves operator().
C20_FailureLeavesStore ==
    /\ [][(mode = "core" /\ core_ret'.op = "throw") =>
             /\ UNCHANGED store_vars
             /\ core_ret'.key \notin DOMAIN _key_to_value']_vars
    /\ []((mode = "core" /\ core_ret.op = "throw") =>
             core_ret.key \notin DOMAIN _key_to_value)
    /\ [](returned.how = "failed" => returned.key \notin DOMAIN _key_to_value)
    /\ [][\A t \in Threads :
             (pc'[t] # pc[t] /\
              (pc'[t] \in MissPath \/ (returned'.how = "failed" /\ returned'.thread = t)))
                 => UNCHANGED store_vars]_vars

\* _fn has just thrown out of operator() on a full stand-alone store: the
\* entries are all still there
C20_Witness ==
    /\ mode = "core" /\ core_ret.op = "throw"
    /\ Len(_key_tracker) = _capacity /\ _capacity >= 2
    /\ core_ret.key \notin DOMAIN _key_to_value

====
